---- MODULE Spec2Model ----
(***************************************************************************)
(* Subscription ledger, lifecycle scheduler, payment event handling and    *)
(* refresh-token rotation of the backend, as a state machine.              *)
(*                                                                         *)
(* The persistent store (users, payments, SubscriptionQueue, RefreshToken) *)
(* is the shared state.  Every request handler and the scheduler sweep is  *)
(* a process whose steps are the store operations it awaits, in program    *)
(* order; steps of different processes interleave freely.                  *)
(*                                                                         *)
(* Time is counted in days.  A request or a sweep takes milliseconds, so   *)
(* the clock advances only between requests (Tick needs every process to   *)
(* be idle); within a day all interleavings of the processes are explored. *)
(* The reminder step of the sweep compares minutes, not days: it is modelled *)
(* on a timeline of its own (clock, activePlans, outbox, rem).              *)
(***************************************************************************)
EXTENDS Integers, Sequences, FiniteSets, TLC

\* ---------------------------------------------------------------- bounds
NumUsers == 2
MaxTime == 3
MaxPayments == 2
MaxEntries == 2
NumHandlers == 2
NumAuthProcs == 2
MaxTokens == 3
\* lifetime of a refresh token in days (env.jwt.refreshExpiresIn); short, so that
\* tokens expire within MaxTime
RefreshTtlDays == 2
\* the reminder timeline: minutes observed, and active entries on it
MaxClock == 45
MaxPlans == 2
\* sweep failures in one behaviour
MaxCrashes == 1
\* the status codes an AppError is constructed with
MaxStatusCode == 505

\* ------------------------------------------------------------ basic sets
Users == 1..NumUsers
Handlers == 1..NumHandlers
AuthProcs == 1..NumAuthProcs
Admins == {1}
PlanIds == {1, 2}
NoDate == -1

\* SubscriptionPlan.durationDays of the plans in the catalog
durationDays(p) == IF p = 1 THEN 1 ELSE 2

VARIABLES now, users, payments, gateway, queue, hnd, sched, tokens, rf,
          clock, activePlans, outbox, rem, crashes, err

vars == <<now, users, payments, gateway, queue, hnd, sched, tokens, rf,
          clock, activePlans, outbox, rem, crashes, err>>

\* the reminder step's timeline (in minutes) and the count of failed sweeps
sweepVars == <<clock, activePlans, outbox, rem, crashes>>

authVars == <<tokens, rf>>
ledgerVars == <<payments, gateway, queue, hnd, sched>>

\* ---------------------------------------------------------------- errors
\* no AppError constructed yet
NoError ==
  [args |-> [message |-> "", statusCode |-> 0, isOperational |-> "undefined"],
   error |-> [message |-> "", statusCode |-> 0, status |-> "",
              isOperational |-> FALSE]]

DigitChars == <<"0", "1", "2", "3", "4", "5", "6", "7", "8", "9">>

RECURSIVE Digits(_)
\* the decimal digits of a natural number, most significant first
Digits(n) ==
  IF n < 10 THEN <<DigitChars[n + 1]>>
  ELSE Append(Digits(n \div 10), DigitChars[(n % 10) + 1])

\* `${statusCode}`: the decimal form of a number, as a sequence of characters
TemplateString(n) == IF n < 0 THEN <<"-">> \o Digits(-n) ELSE Digits(n)

\* a prefix test that also accepts a leading '5'
StartsWith4Or5(str) == Len(str) > 0 /\ Head(str) \in {"4", "5"}

\* str.startsWith('4')
StartsWith4(str) == Len(str) > 0 /\ Head(str) = "4"

\* new AppError(message, statusCode, isOperational = true); the third argument
\* is "true", "false" or, when left out, "undefined"
AppError(message, statusCode, isOperational) ==
  [message |-> message,
   statusCode |-> statusCode,
   status |-> IF StartsWith4(TemplateString(statusCode)) THEN "fail" ELSE "error",
   isOperational |-> isOperational \in {"undefined", "true"}]

\* ------------------------------------------------------------- documents
\* User.subscription defaults
NoSubscription ==
  [planTier |-> 0, startDate |-> NoDate, endDate |-> NoDate,
   isActive |-> FALSE, reminderSent |-> FALSE]

\* the subscription sub-document written on activation
Snapshot(p, activationDate, expiryDate) ==
  [planTier |-> p, startDate |-> activationDate, endDate |-> expiryDate,
   isActive |-> TRUE, reminderSent |-> FALSE]

IdleHandler ==
  [pc |-> "idle", kind |-> "none", tx |-> 0, loaded |-> "none",
   result |-> "none", plan |-> 0,
   aopFound |-> FALSE, aopExpiry |-> NoDate, position |-> 0,
   status |-> "none", activationDate |-> NoDate, expiryDate |-> NoDate]

IdleAuth == [pc |-> "idle", kind |-> "none", old |-> 0, new |-> 0]

IdleSched ==
  [pc |-> "idle", expired |-> <<>>, cur |-> 0, next |-> 0,
   activationDate |-> NoDate, expiryDate |-> NoDate]

EntryIds == 1..Len(queue)
TxIds == 1..Len(payments)

EntriesOf(u) == {e \in EntryIds : queue[e].user = u}

RECURSIVE SetToSeq(_)
\* the ids of S in ascending (insertion) order
SetToSeq(S) ==
  IF S = {} THEN <<>>
  ELSE LET m == CHOOSE x \in S : \A y \in S : x <= y
       IN <<m>> \o SetToSeq(S \ {m})

AllIdle ==
  /\ \A h \in Handlers : hnd[h].pc = "idle"
  /\ sched.pc = "idle"
  /\ \A a \in AuthProcs : rf[a].pc = "idle"

\* ------------------------------------------------------------------ Init
Init ==
  /\ now = 0
  /\ users = [u \in Users |-> [isActive |-> FALSE, subscription |-> NoSubscription]]
  /\ payments = <<>>
  /\ gateway = <<>>
  /\ queue = <<>>
  /\ hnd = [h \in Handlers |-> IdleHandler]
  /\ sched = IdleSched
  /\ tokens = <<>>
  /\ rf = [a \in AuthProcs |-> IdleAuth]
  /\ clock = 0
  /\ activePlans = <<>>
  /\ outbox = <<>>
  /\ rem = <<>>
  /\ crashes = 0
  /\ err = NoError

\* ----------------------------------------------------------------- clock
Tick ==
  /\ AllIdle
  /\ now < MaxTime
  /\ now' = now + 1
  /\ UNCHANGED <<err, sweepVars, users, ledgerVars, authVars>>

\* ------------------------------------------------------ payment creation
\* Payment.create({status: 'pending'}) followed by phonepeService.initiatePayment;
\* when the gateway refuses, the record is saved as 'failed' and the gateway
\* knows no such transaction.
\* Users are interchangeable, so they make their first payment in order of id.
CreatePayment(u, p, ok) ==
  /\ Len(payments) < MaxPayments
  /\ \A v \in Users : v < u => \E t \in TxIds : payments[t].user = v
  /\ payments' = Append(payments,
        [user |-> u, planId |-> p, status |-> IF ok THEN "pending" ELSE "failed"])
  /\ gateway' = Append(gateway, IF ok THEN "pending" ELSE "none")

\* registerAndSubscribe (for a user not yet enabled) and initiatePayment (for a
\* logged-in user) create the payment the same way
initiatePayment(u, p, ok) ==
  /\ CreatePayment(u, p, ok)
  /\ UNCHANGED <<err, sweepVars, authVars, now, users, queue, hnd, sched>>

\* the gateway decides a pending transaction, once
GatewaySettle(t, outcome) ==
  /\ t \in TxIds
  /\ gateway[t] = "pending"
  /\ gateway' = [gateway EXCEPT ![t] = outcome]
  /\ UNCHANGED <<err, sweepVars, authVars, now, users, payments, queue, hnd, sched>>

\* ------------------------------------------------------ payment handlers
\* the webhook codes the gateway delivers for a transaction in each state
CallbackCodes(g) ==
  CASE g = "completed" -> {"PAYMENT_SUCCESS"}
    [] g = "failed" -> {"PAYMENT_ERROR", "PAYMENT_DECLINED"}
    [] OTHER -> {"PAYMENT_PENDING"}

\* phonepeService.checkPaymentStatus: the gateway's answer, or 'failed' when
\* the request itself fails
StatusResults(g) ==
  CASE g = "completed" -> {"completed", "failed"}
    [] g = "pending" -> {"pending", "failed"}
    [] OTHER -> {"failed"}

Finish(h) == hnd' = [hnd EXCEPT ![h] = IdleHandler]

\* a request is served by the first free handler
CanStart(h) ==
  /\ hnd[h].pc = "idle"
  /\ \A g \in Handlers : g < h => hnd[g].pc # "idle"

\* room for one more request within k ledger entries: the requests in flight
\* that may still create an entry are counted
EntryRoom(k) ==
  Len(queue) + Cardinality({g \in Handlers : hnd[g].pc \notin {"idle", "snapshot"}})
    < k

\* paymentCallback up to its first write: Payment.findOne, then the branch on code.
\* t = Len(payments) + 1 stands for a transaction id the store does not know.
paymentCallback(h, t, code) ==
  /\ CanStart(h)
  /\ t \in 1..(Len(payments) + 1)
  /\ IF t \notin TxIds
       THEN UNCHANGED hnd
       ELSE /\ code \in CallbackCodes(gateway[t])
            /\ IF code = "PAYMENT_SUCCESS"
                 THEN hnd' = [hnd EXCEPT ![h] = [IdleHandler EXCEPT
                                !.pc = "save", !.kind = "callback", !.tx = t,
                                !.loaded = payments[t].status,
                                !.result = "completed"]]
                 ELSE IF code \in {"PAYMENT_ERROR", "PAYMENT_DECLINED"}
                 THEN hnd' = [hnd EXCEPT ![h] = [IdleHandler EXCEPT
                                !.pc = "save", !.kind = "callback", !.tx = t,
                                !.loaded = payments[t].status,
                                !.result = "failed"]]
                 ELSE UNCHANGED hnd
  /\ UNCHANGED <<err, sweepVars, authVars, now, users, payments, gateway, queue, sched>>

\* checkStatus up to its first write: Payment.findOne, the test on
\* payment.status (a payment that is not pending is only reported), then
\* await phonepeService.checkPaymentStatus(transactionId) with result r
checkStatus(h, t, r) ==
  /\ CanStart(h)
  /\ t \in TxIds
  /\ r \in StatusResults(gateway[t])
  /\ IF payments[t].status = "pending" /\ r # "pending"
       THEN hnd' = [hnd EXCEPT ![h] = [IdleHandler EXCEPT
                      !.pc = "save", !.kind = "poll", !.tx = t,
                      !.loaded = payments[t].status, !.result = r]]
       ELSE UNCHANGED hnd
  /\ UNCHANGED <<err, sweepVars, authVars, now, users, payments, gateway, queue, sched>>

\* as savePayment, but the helper is called whatever the result
savePaymentAlwaysActivates(h) ==
  /\ hnd[h].pc = "save"
  /\ payments' = [payments EXCEPT ![hnd[h].tx].status = hnd[h].result]
  /\ hnd' = [hnd EXCEPT ![h].pc = "enable"]
  /\ UNCHANGED <<err, sweepVars, authVars, now, users, gateway, queue, sched>>

\* payment.status = ...; await payment.save()
savePayment(h) ==
  /\ hnd[h].pc = "save"
  /\ payments' = [payments EXCEPT ![hnd[h].tx].status = hnd[h].result]
  /\ IF hnd[h].result = "completed"
       THEN hnd' = [hnd EXCEPT ![h].pc = "enable"]
       ELSE Finish(h)
  /\ UNCHANGED <<err, sweepVars, authVars, now, users, gateway, queue, sched>>

\* ------------------------------------------------- activateAndQueuePlan
\* 1) User.findByIdAndUpdate(userId, {isActive: true})
\* 2) Payment.findById(paymentId).populate('planId')
aqpEnableUser(h) ==
  /\ hnd[h].pc = "enable"
  /\ users' = [users EXCEPT ![payments[hnd[h].tx].user].isActive = TRUE]
  /\ hnd' = [hnd EXCEPT ![h].pc = "aop", ![h].plan = payments[hnd[h].tx].planId]
  /\ UNCHANGED <<err, sweepVars, authVars, now, payments, gateway, queue, sched>>

\* the entries findOne({user, status in [active, pending]}).sort({queuePosition: -1})
\* may return: those of highest position among the matches
ActiveOrPending(u) ==
  LET M == {e \in EntriesOf(u) : queue[e].status \in {"active", "pending"}}
  IN {e \in M : \A f \in M : queue[f].queuePosition <= queue[e].queuePosition}

\* 3a) const activeOrPending = await SubscriptionQueue.findOne(...)
aqpFindActiveOrPending(h) ==
  /\ hnd[h].pc = "aop"
  /\ LET u == payments[hnd[h].tx].user
     IN IF ActiveOrPending(u) = {}
          THEN hnd' = [hnd EXCEPT ![h].pc = "last", ![h].aopFound = FALSE]
          ELSE \E e \in ActiveOrPending(u) :
                 hnd' = [hnd EXCEPT ![h].pc = "last", ![h].aopFound = TRUE,
                                    ![h].aopExpiry = queue[e].expiryDate]
  /\ UNCHANGED <<err, sweepVars, authVars, now, users, payments, gateway, queue, sched>>

\* lastEntryOverall ? lastEntryOverall.queuePosition + 1 : 1
NextPosition(u) ==
  IF EntriesOf(u) = {} THEN 1
  ELSE 1 + (CHOOSE m \in {queue[e].queuePosition : e \in EntriesOf(u)} :
              \A e \in EntriesOf(u) : queue[e].queuePosition <= m)

\* as aqpFindLast, but the entry is always made 'active'
aqpFindLastAlwaysActive(h) ==
  /\ hnd[h].pc = "last"
  /\ LET u == payments[hnd[h].tx].user
     IN hnd' = [hnd EXCEPT ![h].pc = "create",
                           ![h].position = NextPosition(u),
                           ![h].status = "active",
                           ![h].activationDate = now,
                           ![h].expiryDate = now + durationDays(hnd[h].plan)]
  /\ UNCHANGED <<err, sweepVars, authVars, now, users, payments, gateway, queue, sched>>

\* 3b) lastEntryOverall, then position, status and the dates
aqpFindLast(h) ==
  /\ hnd[h].pc = "last"
  /\ LET u == payments[hnd[h].tx].user
         st == IF hnd[h].aopFound THEN "pending" ELSE "active"
         ad == IF st = "active" THEN now
               ELSE IF hnd[h].aopExpiry > now THEN hnd[h].aopExpiry ELSE now
     IN hnd' = [hnd EXCEPT ![h].pc = "create",
                           ![h].position = NextPosition(u),
                           ![h].status = st,
                           ![h].activationDate = ad,
                           ![h].expiryDate = ad + durationDays(hnd[h].plan)]
  /\ UNCHANGED <<err, sweepVars, authVars, now, users, payments, gateway, queue, sched>>

\* await SubscriptionQueue.create({...}); via is not a stored field: it records
\* which entry point (callback or poll) ran the helper, for the properties
aqpCreate(h) ==
  /\ hnd[h].pc = "create"
  /\ queue' = Append(queue,
        [user |-> payments[hnd[h].tx].user, planId |-> hnd[h].plan,
         status |-> hnd[h].status, queuePosition |-> hnd[h].position,
         activationDate |-> hnd[h].activationDate,
         expiryDate |-> hnd[h].expiryDate, paymentId |-> hnd[h].tx,
         via |-> hnd[h].kind])
  /\ IF hnd[h].status = "active"
       THEN hnd' = [hnd EXCEPT ![h].pc = "snapshot"]
       ELSE Finish(h)
  /\ UNCHANGED <<err, sweepVars, authVars, now, users, payments, gateway, sched>>

\* if (status === 'active') User.findByIdAndUpdate(userId, {subscription: {...}})
aqpSnapshot(h) ==
  /\ hnd[h].pc = "snapshot"
  /\ users' = [users EXCEPT ![payments[hnd[h].tx].user].subscription =
                  Snapshot(hnd[h].plan, hnd[h].activationDate, hnd[h].expiryDate)]
  /\ Finish(h)
  /\ UNCHANGED <<err, sweepVars, authVars, now, payments, gateway, queue, sched>>

activateAndQueuePlan(h) ==
  \/ aqpEnableUser(h)
  \/ aqpFindActiveOrPending(h)
  \/ aqpFindLast(h)
  \/ aqpCreate(h)
  \/ aqpSnapshot(h)

\* ------------------------------------------- checkExpiriesAndReminders
\* SubscriptionQueue.find({status: 'active', expiryDate: {$lte: now}})
ExpiredPlans == {e \in EntryIds : queue[e].status = "active" /\ queue[e].expiryDate <= now}

\* the loop goes on with the next matched entry, or the sweep ends
SweepContinue(rest) ==
  sched' = IF rest = <<>> THEN IdleSched
           ELSE [IdleSched EXCEPT !.pc = "complete", !.expired = rest]

\* the cron callback: const now = new Date(); const expiredPlans = await find(...)
SweepStart ==
  /\ sched.pc = "idle"
  /\ SweepContinue(SetToSeq(ExpiredPlans))
  /\ UNCHANGED <<err, sweepVars, authVars, now, users, payments, gateway, queue, hnd>>

\* expired.status = 'completed'; await expired.save()
SweepComplete ==
  /\ sched.pc = "complete"
  /\ LET e == Head(sched.expired)
     IN /\ queue' = [queue EXCEPT ![e].status = "completed"]
        /\ sched' = [sched EXCEPT !.pc = "findNext", !.cur = e,
                                  !.expired = Tail(sched.expired)]
  /\ UNCHANGED <<err, sweepVars, authVars, now, users, payments, gateway, hnd>>

\* as NextPending, but matching on user and position alone
NextPendingAnyStatus(e) ==
  {n \in EntriesOf(queue[e].user) :
      queue[n].queuePosition = queue[e].queuePosition + 1}

\* findOne({user: expired.user, status: 'pending', queuePosition: expired.queuePosition + 1})
NextPending(e) ==
  {n \in EntriesOf(queue[e].user) :
      /\ queue[n].status = "pending"
      /\ queue[n].queuePosition = queue[e].queuePosition + 1}

\* const nextPlan = await SubscriptionQueue.findOne(...).populate('planId')
SweepFindNext ==
  /\ sched.pc = "findNext"
  /\ IF NextPending(sched.cur) = {}
       THEN sched' = [sched EXCEPT !.pc = "clear"]
       ELSE \E n \in NextPending(sched.cur) :
              sched' = [sched EXCEPT !.pc = "promote", !.next = n]
  /\ UNCHANGED <<err, sweepVars, authVars, now, users, payments, gateway, queue, hnd>>

\* as SweepPromote, but the dates predicted when the entry was queued are kept
SweepPromoteKeepsDates ==
  /\ sched.pc = "promote"
  /\ LET n == sched.next
     IN /\ queue' = [queue EXCEPT ![n].status = "active"]
        /\ sched' = [sched EXCEPT !.pc = "snapshot",
                                  !.activationDate = queue[n].activationDate,
                                  !.expiryDate = queue[n].expiryDate]
  /\ UNCHANGED <<err, sweepVars, authVars, now, users, payments, gateway, hnd>>

\* as SweepPromote, but the expiry predicted when the entry was queued is kept
SweepPromoteKeepsExpiry ==
  /\ sched.pc = "promote"
  /\ LET n == sched.next
     IN /\ queue' = [queue EXCEPT ![n].status = "active",
                                  ![n].activationDate = now]
        /\ sched' = [sched EXCEPT !.pc = "snapshot", !.activationDate = now,
                                  !.expiryDate = queue[n].expiryDate]
  /\ UNCHANGED <<err, sweepVars, authVars, now, users, payments, gateway, hnd>>

\* nextPlan.status = 'active'; activationDate = new Date();
\* expiryDate = activationDate + planId.durationDays; await nextPlan.save()
SweepPromote ==
  /\ sched.pc = "promote"
  /\ LET n == sched.next
         ed == now + durationDays(queue[n].planId)
     IN /\ queue' = [queue EXCEPT ![n].status = "active",
                                  ![n].activationDate = now,
                                  ![n].expiryDate = ed]
        /\ sched' = [sched EXCEPT !.pc = "snapshot", !.activationDate = now,
                                  !.expiryDate = ed]
  /\ UNCHANGED <<err, sweepVars, authVars, now, users, payments, gateway, hnd>>

\* User.findByIdAndUpdate(expired.user, {subscription: {...nextPlan}})
SweepSnapshot ==
  /\ sched.pc = "snapshot"
  /\ users' = [users EXCEPT ![queue[sched.cur].user].subscription =
                  Snapshot(queue[sched.next].planId, sched.activationDate,
                           sched.expiryDate)]
  /\ SweepContinue(sched.expired)
  /\ UNCHANGED <<err, sweepVars, authVars, now, payments, gateway, queue, hnd>>

\* as SweepClear, but the user's snapshot is left as it was
SweepClearSkipsUser ==
  /\ sched.pc = "clear"
  /\ SweepContinue(sched.expired)
  /\ UNCHANGED <<err, sweepVars, authVars, now, users, payments, gateway, queue, hnd>>

\* User.findByIdAndUpdate(expired.user, {'subscription.isActive': false})
SweepClear ==
  /\ sched.pc = "clear"
  /\ users' = [users EXCEPT ![queue[sched.cur].user].subscription.isActive = FALSE]
  /\ SweepContinue(sched.expired)
  /\ UNCHANGED <<err, sweepVars, authVars, now, payments, gateway, queue, hnd>>

checkExpiriesAndReminders ==
  \/ SweepStart
  \/ SweepComplete
  \/ SweepFindNext
  \/ SweepPromote
  \/ SweepSnapshot
  \/ SweepClear

\* ------------------------------------------------------- specifications
PaymentNext ==
  \/ \E u \in Users, p \in PlanIds, ok \in BOOLEAN : initiatePayment(u, p, ok)
  \/ \E t \in TxIds, o \in {"completed", "failed"} : GatewaySettle(t, o)
  \/ \E h \in Handlers, t \in 1..(Len(payments) + 1),
        c \in {"PAYMENT_SUCCESS", "PAYMENT_ERROR", "PAYMENT_DECLINED", "PAYMENT_PENDING"} :
        EntryRoom(MaxEntries) /\ paymentCallback(h, t, c)
  \/ \E h \in Handlers, t \in TxIds, r \in {"completed", "pending", "failed"} :
        EntryRoom(MaxEntries) /\ checkStatus(h, t, r)
  \/ \E h \in Handlers : savePayment(h)
  \/ \E h \in Handlers : activateAndQueuePlan(h)

Next ==
  \/ Tick
  \/ PaymentNext
  \/ checkExpiriesAndReminders

Spec == Init /\ [][Next]_vars

\* one user's queue, one entry deeper: success webhooks only, delivered
\* concurrently and repeatedly, and the sweep
QueueNext ==
  \/ Tick
  \/ \E p \in PlanIds : initiatePayment(1, p, TRUE)
  \/ \E t \in TxIds : GatewaySettle(t, "completed")
  \/ \E h \in Handlers, t \in TxIds :
        EntryRoom(MaxEntries + 1) /\ paymentCallback(h, t, "PAYMENT_SUCCESS")
  \/ \E h \in Handlers : savePayment(h)
  \/ \E h \in Handlers : activateAndQueuePlan(h)
  \/ checkExpiriesAndReminders

SpecQueue == Init /\ [][QueueNext]_vars

\* --------------------------------------------- other snapshot writers
\* subscription-middleware requireActiveSubscription: for an enabled user whose
\* snapshot is active but past its endDate, switches subscription.isActive off
\* and refuses the request; otherwise writes nothing.
requireActiveSubscription(u) ==
  /\ AllIdle
  /\ users[u].isActive
  /\ users[u].subscription.isActive
  /\ users[u].subscription.endDate # NoDate
  /\ users[u].subscription.endDate <= now
  /\ users' = [users EXCEPT ![u].subscription.isActive = FALSE]
  /\ UNCHANGED <<err, sweepVars, authVars, now, payments, gateway, queue, hnd, sched>>

\* ------------------------------------------------ the calls routes' gate
\* as hasActiveSubscription, but endDate is not looked at
hasActiveSubscriptionAnyDate(sub, t) == sub.isActive

\* the User virtual hasActiveSubscription at time t. subscription.isUnlimited
\* is not a path of the schema, so the document read from the store never has
\* it and that branch returns nothing
hasActiveSubscription(sub, t) ==
  IF ~sub.isActive THEN FALSE
  ELSE IF sub.endDate = NoDate THEN FALSE
  ELSE t < sub.endDate

\* auth-middleware verifyToken for the access token of an existing user: 401
\* without a token or with one that does not verify, 403 for a disabled account
verifyToken(token, user) ==
  IF token # "valid" THEN 401
  ELSE IF ~user.isActive THEN 403
  ELSE 200

\* router.use(verifyToken); router.use(requireActiveSubscription) on the
\* calls routes: the status answered, 200 standing for next()
callsGate(token, user, t) ==
  IF verifyToken(token, user) # 200 THEN verifyToken(token, user)
  ELSE IF ~hasActiveSubscription(user.subscription, t) THEN 403
  ELSE 200

\* one payment request at a time, with the scheduler sweep interleaved
RaceNext ==
  /\ Next
  /\ Cardinality({h \in Handlers : hnd'[h].pc # "idle"}) <= 1

\* the number of operations in progress
Busy(h, sc) ==
  Cardinality({x \in Handlers : h[x].pc # "idle"}) + (IF sc.pc # "idle" THEN 1 ELSE 0)

\* every operation runs to completion before the next one starts, and the
\* subscription middleware serves requests in between
GateNext ==
  /\ \/ Next
     \/ \E u \in Users : requireActiveSubscription(u)
  /\ Busy(hnd', sched') <= 1

SpecGate == Init /\ [][GateNext]_vars

SpecRace == Init /\ [][RaceNext]_vars


\* ------------------------------------------------------ sweep failures
\* an awaited store operation of the sweep's loop throws (or the process
\* stops there): nothing is written by that operation, the single try/catch
\* around the whole function logs the error and the sweep is over
SweepFail ==
  /\ sched.pc # "idle"
  /\ crashes < MaxCrashes
  /\ crashes' = crashes + 1
  /\ sched' = IdleSched
  /\ UNCHANGED <<err, authVars, now, users, payments, gateway, queue, hnd,
                 clock, activePlans, outbox, rem>>

\* one operation at a time, and a sweep may fail
CrashNext ==
  /\ \/ Next
     \/ SweepFail
  /\ Busy(hnd', sched') <= 1

SpecCrash == Init /\ [][CrashNext]_vars

\* a started request runs on; the scheduler fires on every interval, however
\* often requests are served in between
HandlerStep == \E h \in Handlers : savePayment(h) \/ activateAndQueuePlan(h)

SpecRecover ==
  /\ SpecCrash
  /\ WF_vars(HandlerStep /\ Busy(hnd', sched') <= 1)
  /\ SF_vars(checkExpiriesAndReminders /\ Busy(hnd', sched') <= 1)

\* ------------------------------------------------- expiry reminders
\* Step 2 of checkExpiriesAndReminders on a timeline of minutes: clock is the
\* time of the cron instant, activePlans the entries with status 'active'
\* joined with their plan and user, outbox the notifications handed to
\* sendToUser, rem the entries the running sweep has still to look at.
\* The sweep is scheduled every SweepInterval minutes and an entry is reminded
\* when the sweep falls in a window of ReminderWindow minutes.
SweepInterval == 15
ReminderWindow == 16
ExpiryOffsets == {7, 15, 29, 30}
ReminderHours == {0, 2, 24}

\* entry.planId.reminderHours || 24
ReminderLead(h) == IF h = 0 THEN 24 ELSE h

\* moment(entry.expiryDate).subtract(reminderHours, 'hours'), in minutes
reminderTime(entry) == entry.expiryDate - 60 * ReminderLead(entry.reminderHours)

\* moment().isBetween(reminderTime, moment(reminderTime).add(16, 'minutes')):
\* both ends are excluded, and moment() is read some milliseconds after the
\* cron instant, so for dates on whole minutes the sweep at minute c is inside
\* exactly when reminderTime <= c < reminderTime + 16
InReminderWindow(entry, c) ==
  /\ reminderTime(entry) <= c
  /\ c < reminderTime(entry) + ReminderWindow

\* an entry becomes active (by a payment or a promotion) for user u; its
\* expiryDate lies off minutes after the reminder lead counted from minute 0
\* (a cron instant)
PlanBecomesActive(u, h, off, fcm) ==
  /\ rem = <<>>
  /\ Len(activePlans) < MaxPlans
  /\ activePlans' = Append(activePlans,
        [user |-> u, reminderHours |-> h,
         expiryDate |-> 60 * ReminderLead(h) + off, fcmToken |-> fcm,
         reminderSent |-> FALSE])
  /\ UNCHANGED <<err, now, users, ledgerVars, authVars, clock, outbox, rem, crashes>>

\* the next cron instant: the scheduled callback runs and
\* const activePlans = await SubscriptionQueue.find({status: 'active'}).populate('planId')
RemindStart ==
  /\ rem = <<>>
  /\ clock + SweepInterval <= MaxClock
  /\ clock' = clock + SweepInterval
  /\ rem' = [i \in 1..Len(activePlans) |-> i]
  /\ UNCHANGED <<err, now, users, ledgerVars, authVars, activePlans, outbox, crashes>>

\* one turn of the loop: the user lookup, the window test and sendToUser; the
\* snapshot's reminderSent flag is neither read nor written
RemindEntry ==
  /\ rem # <<>>
  /\ LET i == Head(rem)
         entry == activePlans[i]
     IN outbox' = IF entry.fcmToken /\ InReminderWindow(entry, clock)
                    THEN Append(outbox, i)
                    ELSE outbox
  /\ rem' = Tail(rem)
  /\ UNCHANGED <<err, now, users, ledgerVars, authVars, clock, activePlans, crashes>>

RemindNext ==
  \/ \E u \in Users, h \in ReminderHours, off \in ExpiryOffsets, fcm \in BOOLEAN :
        PlanBecomesActive(u, h, off, fcm)
  \/ RemindStart
  \/ RemindEntry

SpecRemind == Init /\ [][RemindNext]_vars

\* the reminders sent for entry i of the reminder timeline
RemindersSent(i) == Cardinality({k \in 1..Len(outbox) : outbox[k] = i})

\* --------------------------------------------------- refresh tokens
\* A raw refresh token is the signed JWT {id, type, jti, exp}: sig tells
\* whether the signature verifies, jti is the RefreshToken record created with
\* it (0: a jti the store does not hold); id, type and exp are those of the
\* issuance, kept in the record as user, userModel and expiresAt.
RawTokens(toks) == [sig : BOOLEAN, jti : 0..Len(toks)]

\* verifyRefreshToken: jwt.verify (signature, then exp), then the record checks
verifyRefreshToken(toks, t, raw) ==
  IF ~raw.sig THEN "JsonWebTokenError"
  ELSE IF raw.jti = 0 THEN "not recognized"
  ELSE IF t >= toks[raw.jti].expiresAt THEN "TokenExpiredError"
  ELSE IF toks[raw.jti].revokedAt # NoDate THEN "revoked"
  ELSE IF t > toks[raw.jti].expiresAt THEN "expired"
  ELSE "ok"

\* generateRefreshToken: RefreshToken.create({jti, user, userModel, expiresAt})
NewTokenRecord(id, type) ==
  [user |-> id, userModel |-> IF type = "admin" THEN "Admin" ELSE "User",
   expiresAt |-> now + RefreshTtlDays, revokedAt |-> NoDate, replacedBy |-> 0]

\* decoded.type of a token issued for the record
TokenType(rec) == IF rec.userModel = "Admin" THEN "admin" ELSE "user"

\* a client can present the tokens it was handed: not the one a refresh still
\* in progress has created but not yet returned
Presentable(raw) ==
  raw.jti = 0 \/ \A a \in AuthProcs : rf[a].pc = "idle" \/ rf[a].new # raw.jti

CanStartAuth(a) ==
  /\ rf[a].pc = "idle"
  /\ \A b \in AuthProcs : b < a => rf[b].pc # "idle"

\* room for the record a login or refresh creates
TokenRoom ==
  Len(tokens) + Cardinality({a \in AuthProcs : rf[a].pc \in {"owner", "create"}})
    < MaxTokens

\* admin updateUserStatus: User.findByIdAndUpdate(id, {isActive})
updateUserStatus(u, b) ==
  /\ users[u].isActive # b
  /\ users' = [users EXCEPT ![u].isActive = b]
  /\ UNCHANGED <<err, sweepVars, now, ledgerVars, authVars>>

\* login of an enabled user with the right password: a new refresh token
login(u) ==
  /\ users[u].isActive
  /\ TokenRoom
  /\ tokens' = Append(tokens, NewTokenRecord(u, "user"))
  /\ UNCHANGED <<err, sweepVars, now, users, ledgerVars, rf>>

\* adminLogin with the right password
adminLogin(ad) ==
  /\ TokenRoom
  /\ tokens' = Append(tokens, NewTokenRecord(ad, "admin"))
  /\ UNCHANGED <<err, sweepVars, now, users, ledgerVars, rf>>

\* the error the refresh endpoints answer with when verifyRefreshToken throws,
\* here with the message of the error caught
refreshErrorOfCause(toks, t, raw) ==
  AppError(verifyRefreshToken(toks, t, raw), 401, "undefined")

\* the error the refresh endpoints answer with when verifyRefreshToken throws:
\* catch (error) { throw new AppError('Invalid or expired refresh token', 401) }
refreshError(toks, t, raw) ==
  AppError("Invalid or expired refresh token", 401, "undefined")

\* refreshAccessToken (endpoint = "user") and adminRefreshToken (endpoint =
\* "admin"): await verifyRefreshToken; a token that does not verify is answered
\* with refreshError and nothing is written
refreshStart(a, endpoint, raw) ==
  /\ CanStartAuth(a)
  /\ TokenRoom
  /\ Presentable(raw)
  /\ IF verifyRefreshToken(tokens, now, raw) = "ok"
       THEN rf' = [rf EXCEPT ![a] = [pc |-> "owner", kind |-> endpoint,
                                     old |-> raw.jti, new |-> 0]]
       ELSE UNCHANGED rf
  /\ UNCHANGED <<err, sweepVars, now, users, ledgerVars, tokens>>

\* the rejections after verification: decoded.type is not the endpoint's (401),
\* or the owner read by User.findById is disabled (403)
refreshRejected(a) ==
  \/ TokenType(tokens[rf[a].old]) # rf[a].kind
  \/ rf[a].kind = "user" /\ ~users[tokens[rf[a].old].user].isActive

\* as refreshOwner, but a rejected request revokes the token it presented
refreshOwnerRevokesOnReject(a) ==
  /\ rf[a].pc = "owner"
  /\ IF refreshRejected(a)
       THEN /\ rf' = [rf EXCEPT ![a] = IdleAuth]
            /\ tokens' = [tokens EXCEPT ![rf[a].old].revokedAt = now]
       ELSE /\ rf' = [rf EXCEPT ![a].pc = "create"]
            /\ UNCHANGED tokens
  /\ UNCHANGED <<err, sweepVars, now, users, ledgerVars>>

\* the token type check, then User.findById / Admin.findById and the isActive
\* check; a rejected request throws and writes nothing
refreshOwner(a) ==
  /\ rf[a].pc = "owner"
  /\ IF refreshRejected(a)
       THEN rf' = [rf EXCEPT ![a] = IdleAuth]
       ELSE rf' = [rf EXCEPT ![a].pc = "create"]
  /\ UNCHANGED <<err, sweepVars, now, users, ledgerVars, tokens>>

\* as refreshCreate, but the presented record is revoked before the new one
\* exists
refreshCreateRevokesFirst(a) ==
  /\ rf[a].pc = "create"
  /\ tokens' = [tokens EXCEPT ![rf[a].old].revokedAt = now]
  /\ rf' = [rf EXCEPT ![a].pc = "revoke", ![a].new = rf[a].old]
  /\ UNCHANGED <<err, sweepVars, now, users, ledgerVars>>

\* const {tokenRecord: newRefreshRecord} = await generateRefreshToken(...)
refreshCreate(a) ==
  /\ rf[a].pc = "create"
  /\ tokens' = Append(tokens, NewTokenRecord(tokens[rf[a].old].user, rf[a].kind))
  /\ rf' = [rf EXCEPT ![a].pc = "revoke", ![a].new = Len(tokens) + 1]
  /\ UNCHANGED <<err, sweepVars, now, users, ledgerVars>>

\* as refreshRevoke, but the old record is only revoked, not linked
refreshRevokeNoLink(a) ==
  /\ rf[a].pc = "revoke"
  /\ tokens' = [tokens EXCEPT ![rf[a].old].revokedAt = now]
  /\ rf' = [rf EXCEPT ![a] = IdleAuth]
  /\ UNCHANGED <<err, sweepVars, now, users, ledgerVars>>

\* tokenRecord.revokedAt = new Date(); tokenRecord.replacedBy = newRefreshRecord._id;
\* await tokenRecord.save()
refreshRevoke(a) ==
  /\ rf[a].pc = "revoke"
  /\ tokens' = [tokens EXCEPT ![rf[a].old].revokedAt = now,
                              ![rf[a].old].replacedBy = rf[a].new]
  /\ rf' = [rf EXCEPT ![a] = IdleAuth]
  /\ UNCHANGED <<err, sweepVars, now, users, ledgerVars>>

\* the response of logout / adminLogout: res.status(200).json({status:
\* 'success'}) in the catch and after the save alike
logoutResponse(toks, t, raw) == [statusCode |-> 200, status |-> "success"]

\* as logoutStart, but every token that names a record goes on to the save
logoutStartNoVerify(a, raw) ==
  /\ CanStartAuth(a)
  /\ Presentable(raw)
  /\ IF raw.jti # 0
       THEN rf' = [rf EXCEPT ![a] = [pc |-> "logout", kind |-> "logout",
                                     old |-> raw.jti, new |-> 0]]
       ELSE UNCHANGED rf
  /\ UNCHANGED <<err, sweepVars, now, users, ledgerVars, tokens>>

\* logout / adminLogout up to the save: a token that does not verify is answered
\* with success and nothing is written
logoutStart(a, raw) ==
  /\ CanStartAuth(a)
  /\ Presentable(raw)
  /\ IF verifyRefreshToken(tokens, now, raw) = "ok"
       THEN rf' = [rf EXCEPT ![a] = [pc |-> "logout", kind |-> "logout",
                                     old |-> raw.jti, new |-> 0]]
       ELSE UNCHANGED rf
  /\ UNCHANGED <<err, sweepVars, now, users, ledgerVars, tokens>>

\* tokenRecord.revokedAt = new Date(); await tokenRecord.save()
logoutSave(a) ==
  /\ rf[a].pc = "logout"
  /\ tokens' = [tokens EXCEPT ![rf[a].old].revokedAt = now]
  /\ rf' = [rf EXCEPT ![a] = IdleAuth]
  /\ UNCHANGED <<err, sweepVars, now, users, ledgerVars>>

AuthNext ==
  \/ Tick
  \/ \E u \in Users, b \in BOOLEAN : updateUserStatus(u, b)
  \/ \E u \in Users : login(u)
  \/ \E ad \in Admins : adminLogin(ad)
  \/ \E a \in AuthProcs, ep \in {"user", "admin"}, raw \in RawTokens(tokens) :
        refreshStart(a, ep, raw)
  \/ \E a \in AuthProcs : refreshOwner(a)
  \/ \E a \in AuthProcs : refreshCreate(a)
  \/ \E a \in AuthProcs : refreshRevoke(a)
  \/ \E a \in AuthProcs, raw \in RawTokens(tokens) : logoutStart(a, raw)
  \/ \E a \in AuthProcs : logoutSave(a)

SpecAuth == Init /\ [][AuthNext]_vars

\* ------------------------------------------------ admin user operations
\* the plans an admin can name when activating by hand; anything but 'daily'
\* counts as weekly, here the longer plan of the catalog
AdminPlans == {"daily", "weekly"}

\* admin activateSubscription: user.subscription = {plan, startDate: now,
\* endDate: now + durationDays, isActive: true, isUnlimited: false}; user.save().
\* plan and isUnlimited are not schema paths; planTier and reminderSent take
\* their defaults.  No ledger entry is created.
activateSubscription(u, plan) ==
  /\ AllIdle
  /\ users' = [users EXCEPT ![u].subscription =
        [NoSubscription EXCEPT
           !.startDate = now,
           !.endDate = now + durationDays(IF plan = "daily" THEN 1 ELSE 2),
           !.isActive = TRUE]]
  /\ UNCHANGED <<err, sweepVars, authVars, now, payments, gateway, queue, hnd, sched>>

\* admin updateUser with accessDays or isUnlimited in the body: the snapshot is
\* replaced by a 'custom' one, unlimited (endDate null) or running accessDays
\* from now or, with extendSubscription, from the current endDate if later
\* (end dates are kept within two days of MaxTime)
updateUser(u, accessDays, isUnlimited, extendSubscription) ==
  /\ AllIdle
  /\ LET sub == users[u].subscription
         base == IF extendSubscription /\ sub.isActive /\ sub.endDate # NoDate
                      /\ sub.endDate > now
                   THEN sub.endDate ELSE now
     IN /\ base + accessDays <= MaxTime + 2
        /\ users' = [users EXCEPT ![u].subscription =
          IF isUnlimited
            THEN [NoSubscription EXCEPT
                    !.startDate = IF sub.isActive THEN sub.startDate ELSE now,
                    !.endDate = NoDate, !.isActive = TRUE]
            ELSE [NoSubscription EXCEPT
                    !.startDate = IF extendSubscription /\ sub.startDate # NoDate
                                    THEN sub.startDate ELSE now,
                    !.endDate = base + accessDays, !.isActive = TRUE]]
  /\ UNCHANGED <<err, sweepVars, authVars, now, payments, gateway, queue, hnd, sched>>

\* the operations on users outside the ledger: the admin operations and the
\* subscription middleware, as time passes
AdminNext ==
  \/ Tick
  \/ \E u \in Users, b \in BOOLEAN : updateUserStatus(u, b)
  \/ \E u \in Users : requireActiveSubscription(u)
  \/ \E u \in Users, plan \in AdminPlans : activateSubscription(u, plan)
  \/ \E u \in Users, isUnlimited, extend \in BOOLEAN :
        updateUser(u, 1, isUnlimited, extend)

SpecAdmin == Init /\ [][AdminNext]_vars

\* ------------------------------------------------- error construction
\* the codes given to the constructor: the HTTP range and around it, and some
\* of four digits
StatusCodes == (-4..49) \cup (395..MaxStatusCode) \cup {4000, 4040, 4999, 5004}
Messages == {"Invalid or expired refresh token", "Active subscription required"}

\* an error is constructed somewhere in the program
newAppError(message, statusCode, isOperational) ==
  /\ err' = [args |-> [message |-> message, statusCode |-> statusCode,
                      isOperational |-> isOperational],
             error |-> AppError(message, statusCode, isOperational)]
  /\ UNCHANGED <<now, users, ledgerVars, authVars, sweepVars>>

ErrorNext ==
  \E m \in Messages, c \in StatusCodes, op \in {"undefined", "true", "false"} :
     newAppError(m, c, op)

SpecErrors == Init /\ [][ErrorNext]_vars

\* ------------------------------------------------------------ properties
ActiveEntries(u) == {e \in EntriesOf(u) : queue[e].status = "active"}
PendingEntries(u) == {e \in EntriesOf(u) : queue[e].status = "pending"}
EntriesFor(t) == {e \in EntryIds : queue[e].paymentId = t}
Positions(u) == {queue[e].queuePosition : e \in EntriesOf(u)}
Terminal == {"completed", "failed"}

\* C1: in every reachable state each user has at most one SubscriptionQueue
\* entry with status 'active'.
C1_AtMostOneActive ==
  \A u \in Users : Cardinality(ActiveEntries(u)) <= 1

\* C2: success webhooks for one transactionId, however often delivered, create
\* exactly one SubscriptionQueue entry for that payment: never two entries of
\* the same payment that were both created by paymentCallback.
C2_WebhookReplayOneEntry ==
  \A t \in TxIds :
    Cardinality({e \in EntriesFor(t) : queue[e].via = "callback"}) <= 1

\* C3: for every user the queuePosition values are exactly 1..n, without
\* duplicates and without gaps.
C3_ContiguousPositions ==
  \A u \in Users :
    /\ Positions(u) = 1..Cardinality(EntriesOf(u))
    /\ \A e, f \in EntriesOf(u) :
         queue[e].queuePosition = queue[f].queuePosition => e = f

\* C4: the webhook path and the poll path converge for one transaction: the
\* ledger never holds an entry created by paymentCallback together with an entry
\* created by checkStatus for the same payment.
C4_WebhookPollConverge ==
  \A t \in TxIds :
    \A e, f \in EntriesFor(t) : queue[e].via = queue[f].via

\* C5: a webhook or poll that finds the Payment already 'completed' or 'failed'
\* is a no-op: none of its steps changes a payment or adds a ledger entry.
C5_TerminalIsNoOp ==
  [][\A h \in Handlers :
        (hnd[h].pc # "idle" /\ hnd[h].loaded \in Terminal /\ hnd'[h] # hnd[h])
          => (payments' = payments /\ queue' = queue)]_vars

\* C6: whenever no operation is in progress, the snapshot mirrors the ledger:
\* subscription.isActive is true exactly when the user has an 'active' entry,
\* and then startDate/endDate are that entry's activationDate/expiryDate.
C6_SnapshotMirrorsLedger ==
  AllIdle =>
    \A u \in Users :
      /\ users[u].subscription.isActive <=> ActiveEntries(u) # {}
      /\ \A e \in ActiveEntries(u) :
           /\ users[u].subscription.startDate = queue[e].activationDate
           /\ users[u].subscription.endDate = queue[e].expiryDate

\* C7: when the sweep has promoted the successor of an expired entry, the
\* expired entry is 'completed' and its successor (same user, next position) is
\* 'active' with activationDate = the sweep time and expiryDate = the sweep time
\* plus its plan's durationDays.
C7_PromotionDates ==
  sched.pc = "snapshot" =>
    LET c == sched.cur
        n == sched.next
    IN /\ queue[c].status = "completed"
       /\ queue[c].expiryDate <= now
       /\ queue[n].user = queue[c].user
       /\ queue[n].queuePosition = queue[c].queuePosition + 1
       /\ queue[n].status = "active"
       /\ queue[n].activationDate = now
       /\ queue[n].expiryDate = now + durationDays(queue[n].planId)

\* the sweep ran later than entry 1's expiry and promoted entry 2 of the user
C7_Witness ==
  /\ sched.pc = "snapshot"
  /\ queue[sched.cur].queuePosition = 1
  /\ queue[sched.next].queuePosition = 2
  /\ queue[sched.cur].expiryDate < now
  /\ queue[sched.next].planId = 2

\* C8: when the sweep finds no pending successor for an expired entry, the step
\* that ends its processing leaves the entry 'completed' and the snapshot's
\* isActive false, and, if it was the user's only entry, no active entry.
C8_ExpireWithoutSuccessor ==
  [][(sched.pc = "clear" /\ sched'.pc # "clear") =>
        LET e == sched.cur
            u == queue[e].user
        IN /\ queue'[e].status = "completed"
           /\ ~users'[u].subscription.isActive
           /\ (EntriesOf(u) = {e} =>
                 \A f \in 1..Len(queue') :
                    queue'[f].user = u => queue'[f].status # "active")]_vars

\* a user whose single entry was swept: completed, snapshot switched off
C8_Witness ==
  /\ sched.pc = "idle"
  /\ \E u \in Users : \E e \in EntriesOf(u) :
       /\ EntriesOf(u) = {e}
       /\ queue[e].status = "completed"
       /\ users[u].subscription.endDate = queue[e].expiryDate
       /\ ~users[u].subscription.isActive

\* C9: a payment processed while the sweep is between completing an expired
\* entry and promoting or clearing ends like one of the serial orders: positions
\* contiguous, no active entry with snapshot.isActive false, no pending entry
\* without an active one.
C9_SweepPaymentSerializable ==
  AllIdle =>
    \A u \in Users :
      /\ Positions(u) = 1..Cardinality(EntriesOf(u))
      /\ (ActiveEntries(u) # {} => users[u].subscription.isActive)
      /\ (PendingEntries(u) # {} => ActiveEntries(u) # {})

\* C10: when a refresh with token R completes, R no longer verifies (revoked),
\* the refresh token it returns verifies, and R's record has replacedBy = the
\* new token's record.
C10_RotationLinksAndRevokes ==
  [][\A a \in AuthProcs :
        (rf[a].pc = "revoke" /\ rf'[a].pc = "idle") =>
          /\ verifyRefreshToken(tokens', now', [sig |-> TRUE, jti |-> rf[a].old]) = "revoked"
          /\ verifyRefreshToken(tokens', now', [sig |-> TRUE, jti |-> rf[a].new]) = "ok"
          /\ tokens'[rf[a].old].replacedBy = rf[a].new]_vars

\* a completed rotation: a revoked record linked to a live successor
C10_Witness ==
  /\ \A a \in AuthProcs : rf[a].pc = "idle"
  /\ \E r \in 1..Len(tokens) :
       /\ tokens[r].revokedAt # NoDate
       /\ tokens[r].replacedBy # 0
       /\ verifyRefreshToken(tokens, now, [sig |-> TRUE, jti |-> tokens[r].replacedBy]) = "ok"

\* C11: refresh tokens are one-time-use: a refresh request never completes for
\* a token that another refresh has already rotated (its record already has a
\* successor in replacedBy), also when the two requests run concurrently.
C11_OneTimeUse ==
  [][\A a \in AuthProcs :
        (rf[a].pc = "revoke" /\ rf'[a].pc = "idle") =>
          tokens[rf[a].old].replacedBy = 0]_vars

\* C12: no sequence of sweeps sends a second expiry reminder for the same
\* active entry: sweeps at T - 24h and T - 23h45m send exactly one.
C12_ReminderOnce ==
  \A i \in 1..Len(activePlans) : RemindersSent(i) <= 1

\* C13: the subscription snapshot of a user changes only in the step of
\* activateAndQueuePlan that follows the creation of an active entry and in the
\* scheduler's promote and clear steps for an entry of that user.
C13_SnapshotSingleWriter ==
  [][\A u \in Users :
        users'[u].subscription # users[u].subscription =>
          \/ \E h \in Handlers :
                /\ hnd[h].pc = "snapshot"
                /\ payments[hnd[h].tx].user = u
                /\ hnd'[h].pc = "idle"
          \/ /\ sched.pc \in {"snapshot", "clear"}
             /\ queue[sched.cur].user = u
             /\ sched' # sched]_vars

\* C14: as sweeps keep running, also after a failed one, every active entry
\* past its expiryDate is eventually 'completed', and a pending entry never
\* stays behind with no active entry of its user: it becomes 'active'.
C14_SweepRecovers ==
  \A e \in 1..MaxEntries :
    /\ (e \in EntryIds /\ queue[e].status = "active" /\ queue[e].expiryDate <= now)
          ~> (e \in EntryIds /\ queue[e].status = "completed")
    /\ (e \in EntryIds /\ queue[e].status = "pending"
           /\ ActiveEntries(queue[e].user) = {})
          ~> (e \in EntryIds /\ (queue[e].status = "active"
                                  \/ ActiveEntries(queue[e].user) # {}))

\* C15: a failure while one expired entry is processed does not stop the
\* sweep: the sweep ends only when every entry it matched has been processed.
C15_FailureDoesNotAbort ==
  [][(sched.pc # "idle" /\ sched'.pc = "idle") => sched.expired = <<>>]_vars

\* C16: the status of a SubscriptionQueue entry only moves forward: every
\* change of an entry's status is pending to active or active to completed.
C16_StatusForward ==
  [][\A e \in EntryIds :
        queue'[e].status # queue[e].status =>
          <<queue[e].status, queue'[e].status>> \in
             {<<"pending", "active">>, <<"active", "completed">>}]_vars

\* a user's second entry was queued behind the first, promoted and has expired
C16_Witness ==
  \E u \in Users : \E e, f \in EntriesOf(u) :
    /\ queue[e].queuePosition = 1
    /\ queue[f].queuePosition = 2
    /\ queue[e].status = "completed"
    /\ queue[f].status = "completed"
    /\ queue[f].activationDate >= queue[e].expiryDate
    /\ users[u].subscription.startDate = queue[f].activationDate

\* C17: promotion is strictly sequential: the entry the scheduler promotes is
\* the pending entry of the expired entry's user at the next position; no other
\* pending entry of the user at that or a lower position is passed over, and
\* every entry of the user activated before has a lower position.
C17_SequentialPromotion ==
  [][(sched.pc = "promote" /\ sched'.pc = "snapshot") =>
        LET c == sched.cur
            n == sched.next
            u == queue[c].user
        IN /\ queue[n].user = u
           /\ queue[n].status = "pending"
           /\ queue'[n].status = "active"
           /\ queue[n].queuePosition = queue[c].queuePosition + 1
           /\ \A f \in EntriesOf(u) \ {n} :
                /\ queue[f].queuePosition <= queue[n].queuePosition
                      => queue[f].status # "pending"
                /\ queue[f].status \in {"active", "completed"}
                      => queue[f].queuePosition < queue[n].queuePosition]_vars

C19_PendingDatesUnset ==
  \A e \in EntryIds :
    queue[e].status = "pending" =>
      queue[e].activationDate = NoDate /\ queue[e].expiryDate = NoDate

\* C20: once a RefreshToken record's revokedAt is set it is never cleared, and
\* its replacedBy is written at most once.
C20_RevokedStaysRevoked ==
  [][\A r \in 1..Len(tokens) :
        /\ tokens[r].revokedAt # NoDate => tokens'[r].revokedAt # NoDate
        /\ tokens[r].replacedBy # 0 => tokens'[r].replacedBy = tokens[r].replacedBy]_vars

\* C21: within a refresh the new RefreshToken record is written before the old
\* one is revoked: the steps of a refresh before its last leave the presented
\* record as it was, from the moment the refresh reaches its last step the new
\* token verifies, and it still verifies when the old one has been revoked.
C21_NewBeforeRevoke ==
  [][\A a \in AuthProcs :
        /\ (rf[a].pc \in {"owner", "create"} /\ rf'[a] # rf[a]) =>
              tokens'[rf[a].old] = tokens[rf[a].old]
        /\ rf'[a].pc = "revoke" =>
              /\ rf'[a].new # rf'[a].old
              /\ verifyRefreshToken(tokens', now', [sig |-> TRUE, jti |-> rf'[a].new]) = "ok"
        /\ (rf[a].pc = "revoke" /\ rf'[a].pc = "idle") =>
              verifyRefreshToken(tokens', now', [sig |-> TRUE, jti |-> rf[a].new]) = "ok"]_vars

\* between the two writes of a refresh: the old and the new token both verify
C21_Witness ==
  \E a \in AuthProcs :
     /\ rf[a].pc = "revoke"
     /\ verifyRefreshToken(tokens, now, [sig |-> TRUE, jti |-> rf[a].old]) = "ok"
     /\ verifyRefreshToken(tokens, now, [sig |-> TRUE, jti |-> rf[a].new]) = "ok"

\* C22: logout always answers success; it goes on to its write only for a
\* token that verifies (whose record is then not revoked and has no
\* successor), and the write sets revokedAt of that record and nothing else.
C22_LogoutIdempotent ==
  [][/\ \A raw \in RawTokens(tokens) :
           logoutResponse(tokens, now, raw) = [statusCode |-> 200, status |-> "success"]
     /\ \A a \in AuthProcs :
           /\ (rf[a].pc = "idle" /\ rf'[a].pc = "logout") =>
                 /\ verifyRefreshToken(tokens, now, [sig |-> TRUE, jti |-> rf'[a].old]) = "ok"
                 /\ tokens[rf'[a].old].replacedBy = 0
                 /\ tokens' = tokens
           /\ (rf[a].pc = "logout" /\ rf'[a].pc = "idle") =>
                 tokens' = [tokens EXCEPT ![rf[a].old].revokedAt = now]]_vars

\* a token revoked by logout on an earlier day, with no successor: a second
\* logout with it can be attempted
C22_Witness ==
  /\ \A a \in AuthProcs : rf[a].pc = "idle"
  /\ \E r \in 1..Len(tokens) :
       /\ tokens[r].revokedAt # NoDate
       /\ tokens[r].revokedAt < now
       /\ tokens[r].replacedBy = 0
       /\ now < tokens[r].expiresAt

\* C23: for a token with a valid signature verifyRefreshToken fails as unknown
\* when no record has its jti, otherwise as revoked when revokedAt is set,
\* otherwise as expired when now is past expiresAt, and succeeds only when none
\* of the three holds (at the instant of expiry itself either answer of the
\* expiry test is accepted).
C23_VerifyPrecedence ==
  \A raw \in RawTokens(tokens) :
     raw.sig =>
       LET r == verifyRefreshToken(tokens, now, raw)
       IN IF raw.jti = 0 THEN r = "not recognized"
          ELSE IF tokens[raw.jti].revokedAt # NoDate
            THEN \/ r = "revoked"
                 \/ now = tokens[raw.jti].expiresAt /\ r \in {"expired", "TokenExpiredError"}
          ELSE IF now > tokens[raw.jti].expiresAt
            THEN r \in {"expired", "TokenExpiredError"}
          ELSE IF now = tokens[raw.jti].expiresAt
            THEN r \in {"ok", "expired", "TokenExpiredError"}
          ELSE r = "ok"

\* C26: every refresh token that fails verification, for whatever cause, gets
\* the same status code, status and message from the refresh endpoints as a
\* token with a bad signature, so any two of them get the same.
C26_SameRefreshFailure ==
  LET forged == [sig |-> FALSE, jti |-> 0]
  IN \A raw \in RawTokens(tokens) :
        verifyRefreshToken(tokens, now, raw) # "ok" =>
          refreshError(tokens, now, raw) = refreshError(tokens, now, forged)

\* tokens failing for each of the four causes can be presented at once
C26_Witness ==
  \A cause \in {"JsonWebTokenError", "not recognized", "TokenExpiredError", "revoked"} :
     \E raw \in RawTokens(tokens) : verifyRefreshToken(tokens, now, raw) = cause

\* C29: a refresh that is rejected after its token verified (wrong token type
\* for the endpoint, or disabled owner) leaves the token store unchanged.
C29_RejectedRefreshWritesNothing ==
  [][\A a \in AuthProcs :
        (rf[a].pc = "owner" /\ rf'[a].pc = "idle") =>
          /\ refreshRejected(a)
          /\ tokens' = tokens]_vars

\* a user's token that verified at the admin endpoint, about to be rejected
C29_Witness ==
  \E a \in AuthProcs :
     /\ rf[a].pc = "owner"
     /\ TokenType(tokens[rf[a].old]) # rf[a].kind
     /\ verifyRefreshToken(tokens, now, [sig |-> TRUE, jti |-> rf[a].old]) = "ok"

\* C24: a failure or decline notification (webhook or poll) sets the payment to
\* 'failed' and ends there: from its start to its end the request creates no
\* ledger entry and leaves every user as it was.
C24_FailureOnlyFails ==
  [][\A h \in Handlers :
        /\ (hnd[h].pc = "idle" /\ hnd'[h].pc = "save" /\ hnd'[h].result = "failed") =>
              /\ payments' = payments
              /\ queue' = queue
              /\ users' = users
        /\ (hnd[h].pc = "save" /\ hnd[h].result = "failed" /\ hnd'[h] # hnd[h]) =>
              /\ payments' = [payments EXCEPT ![hnd[h].tx].status = "failed"]
              /\ queue' = queue
              /\ users' = users
              /\ hnd'[h] = IdleHandler]_vars

\* a declined payment of a user who has paid nothing else: marked failed, no
\* ledger entry, the user not enabled
C24_Witness ==
  /\ \A h \in Handlers : hnd[h].pc = "idle"
  /\ \E t \in TxIds :
       /\ gateway[t] = "failed"
       /\ payments[t].status = "failed"
       /\ EntriesFor(t) = {}
       /\ ~users[payments[t].user].isActive
       /\ users[payments[t].user].subscription = NoSubscription

\* C25: a success notification marks the payment completed, then creates the
\* ledger entry, then enables the user: whenever the handler has enabled the
\* user and goes on, an entry with that paymentId exists.
C25_EntryBeforeEnable ==
  \A h \in Handlers :
     hnd[h].pc \in {"aop", "last", "create"} => EntriesFor(hnd[h].tx) # {}

\* C28: every entry that is or has been active has expiryDate = activationDate
\* + its plan's durationDays, and an entry is completed only once that
\* expiryDate has come.
C28_ExpiryIsActivationPlusDuration ==
  \A e \in EntryIds :
     queue[e].status \in {"active", "completed"} =>
       /\ queue[e].activationDate # NoDate
       /\ queue[e].expiryDate = queue[e].activationDate + durationDays(queue[e].planId)
       /\ queue[e].status = "completed" => queue[e].expiryDate <= now

\* an entry promoted by the scheduler later than was predicted when it was
\* queued, and since completed
C28_Witness ==
  \E e \in EntryIds :
     /\ queue[e].status = "completed"
     /\ queue[e].queuePosition = 2
     /\ queue[e].activationDate > 1

\* C30: the calls routes admit a request only with a valid token of an enabled
\* user whose snapshot is active with endDate later than now; a user whose
\* snapshot endDate has come is refused.
C30_CallsGate ==
  \A u \in Users, token \in {"none", "invalid", "valid"} :
     /\ callsGate(token, users[u], now) = 200 =>
           /\ token = "valid"
           /\ users[u].isActive
           /\ users[u].subscription.isActive
           /\ users[u].subscription.endDate # NoDate
           /\ users[u].subscription.endDate > now
     /\ (users[u].subscription.endDate # NoDate /\ users[u].subscription.endDate <= now) =>
           callsGate(token, users[u], now) # 200

\* the snapshot's endDate has come and the sweep has not yet completed the
\* ledger entry: the gate refuses the enabled user
C30_Witness ==
  \E u \in Users :
     /\ sched.pc = "idle"
     /\ users[u].isActive
     /\ users[u].subscription.isActive
     /\ users[u].subscription.endDate <= now
     /\ \E e \in ActiveEntries(u) : queue[e].expiryDate = users[u].subscription.endDate
     /\ callsGate("valid", users[u], now) = 403

\* C27: an AppError has status 'fail' when the decimal form of its status
\* code starts with 4 and 'error' otherwise, statusCode is the code given, and
\* isOperational is true unless given otherwise.
C27_AppErrorStatus ==
  err # NoError =>
    LET code == err.args.statusCode
        starts4 == code = 4 \/ code \in 40..49 \/ code \in 400..499
                     \/ code \in 4000..4999
    IN /\ err.error.status = IF starts4 THEN "fail" ELSE "error"
       /\ err.error.statusCode = code
       /\ err.error.message = err.args.message
       /\ err.error.isOperational = (err.args.isOperational # "false")

\* a client error constructed without the third argument
C27_Witness ==
  /\ err.args.statusCode = 404
  /\ err.args.isOperational = "undefined"
  /\ err.error.status = "fail"
  /\ err.error.isOperational

====
